---- MODULE Spec2Model ----
(***************************************************************************)
(* Model of the scraper-orchestration core of faang-job-scraper:           *)
(*   - ScraperFactory (src/scrapers/scraper_factory.py): configuration     *)
(*     load, explicit registry, convention-based class resolution,         *)
(*     create_scraper with deep-copied configuration;                      *)
(*   - BaseScraper (src/scrapers/base_scraper.py): the scrape_jobs         *)
(*     template method, _process_job_data and the normalisation helpers.   *)
(*                                                                         *)
(* Python objects that can be aliased (the configuration dictionaries)     *)
(* live in an explicit heap, so that copy.deepcopy, a shallow copy and no  *)
(* copy at all are three different things.  Text is a sequence of lexemes: *)
(* a whitespace character, "<", ">", a control character, or a word.       *)
(***************************************************************************)
EXTENDS Integers, Sequences, FiniteSets, TLC

(***************************************************************************)
(* Bounds of the model.                                                    *)
(***************************************************************************)
MaxScrapers == 2
MaxItems == 2
MaxRuns == 2

(***************************************************************************)
(* Factory state.                                                          *)
(***************************************************************************)
VARIABLES
    heap,             \* Python dict objects: Seq of [data, child]; a ref is an index
    company_configs,  \* ScraperFactory._company_configs: ordered <<key, ref>> pairs
    global_config,    \* ScraperFactory._global_config: ref
    registry,         \* ScraperFactory._registry: key -> class name, or "none"
    scrapers,         \* the scraper instances handed out: Seq of [cls, company_config, global_config]
    explicit,         \* history: key -> class of the last successful register_scraper, or "none"
    last              \* history: outcome of the last factory call

fvars == <<heap, company_configs, global_config, registry, scrapers, explicit, last>>

(***************************************************************************)
(* State of one scraper instance (BaseScraper) and of its scrape_jobs.     *)
(***************************************************************************)
VARIABLES
    driver,      \* self.driver: "none", "live" (a session), "dead" (a session that was quit)
    wait,        \* self.wait: "none" or "set"
    rate_limit,  \* self.rate_limit
    stats,       \* self.stats
    pc,          \* where scrape_jobs is: "idle", "loop", "returning", "cancelled"
    raw_jobs,    \* scrape_jobs' raw_jobs
    idx,         \* position of the for loop in raw_jobs
    jobs,        \* scrape_jobs' jobs
    handled,     \* history: what became of each raw item of this run
    delays,      \* history: the asyncio.sleep(1 / rate_limit) calls of this run
    runs,        \* history: the scrape_jobs calls that ended
    call,        \* history: the last call of initialize, cleanup or scrape_jobs and how it ended
    snapshot     \* the dict the last get_stats() returned, as its caller holds it

rvars == <<driver, wait, rate_limit, stats, pc, raw_jobs, idx, jobs, handled, delays, runs, call, snapshot>>

(***************************************************************************)
(* State of one JobCategorizer, and its last categorize_job call.          *)
(***************************************************************************)
VARIABLES
    categories,  \* self.categories: the job_categories of the configuration, in declaration order
    rules,       \* self.rules: the categorization_rules, defaults filled in
    result       \* history: the last categorize_job call, its arguments and what it returned

cvars == <<categories, rules, result>>

vars == <<fvars, rvars, cvars>>

(***************************************************************************)
(* str.lower() on the employer keys that occur.                            *)
(***************************************************************************)
Lower(s) ==
    CASE s = "Meta" -> "meta"
      [] s = "META" -> "meta"
      [] s = "AMAZON" -> "amazon"
      [] s = "Amazon" -> "amazon"
      [] OTHER -> s

\* The keys callers pass to the factory.
CallKeys == {"meta", "Meta", "amazon", "ghost"}

\* Lower-cased keys.
Keys == {Lower(k) : k \in CallKeys}

(***************************************************************************)
(* The Python environment: importable modules and what they define.        *)
(* A class is named by its class name; ScraperClasses are the subclasses   *)
(* of BaseScraper, "Helper" is a class that is not.                        *)
(***************************************************************************)
ScraperClasses == {"MetaScraper", "AltScraper", "DummyScraper", "OtherScraper"}

AllClasses == ScraperClasses \cup {"Helper"}

IsSubclassOfBaseScraper(c) == c \in ScraperClasses

ModuleEnv ==
    ("scrapers.companies.meta_scraper" :> {"MetaScraper"}) @@
    ("plugins.good" :> {"AltScraper", "Helper"})

\* importlib.import_module: the module, or ModuleNotFoundError.
ImportModule(path) ==
    IF path \in DOMAIN ModuleEnv
    THEN [ok |-> TRUE, attrs |-> ModuleEnv[path]]
    ELSE [ok |-> FALSE, attrs |-> {}]

\* The default of company_config.get("module", ...).
DefaultModulePath(key) == "scrapers.companies." \o key \o "_scraper"

(***************************************************************************)
(* dict.get(field, default) on a configuration dictionary; a key that is   *)
(* not in the dictionary is the value "absent".                            *)
(***************************************************************************)
DictGet(d, field, default) == IF d[field] = "absent" THEN default ELSE d[field]

\* Python truthiness of the configuration values that occur.
Truthy(v) == v \notin {"false", ""}

(***************************************************************************)
(* copy.deepcopy of the object at ref r: a new object for r and for every  *)
(* object reachable from it.                                               *)
(***************************************************************************)
(***************************************************************************)
(* copy.copy of the object at ref r: a new object for r alone, which       *)
(* shares every nested object with the original.                           *)
(***************************************************************************)
ShallowCopy(h, r) == [heap |-> Append(h, h[r]), ref |-> Len(h) + 1]

RECURSIVE DeepCopy(_, _)
DeepCopy(h, r) ==
    IF h[r].child = 0
    THEN [heap |-> Append(h, h[r]), ref |-> Len(h) + 1]
    ELSE LET c == DeepCopy(h, h[r].child)
         IN  [heap |-> Append(c.heap, [h[r] EXCEPT !.child = c.ref]),
              ref  |-> Len(c.heap) + 1]

\* What can be read through ref r.
View(h, r) ==
    [data |-> h[r].data,
     child |-> IF h[r].child = 0 THEN "none" ELSE h[h[r].child].data]

(***************************************************************************)
(* ScraperFactory.__init__: the configuration file's "companies" object is *)
(* an ordered list of <<raw key, configuration>>; keys are lower-cased,    *)
(* a repeated key keeps its first position and takes the last value.       *)
(***************************************************************************)
KeyIndex(cc, key) ==
    LET hits == {i \in 1..Len(cc) : cc[i][1] = key}
    IN  IF hits = {} THEN 0 ELSE CHOOSE i \in hits : TRUE

HasKey(cc, key) == KeyIndex(cc, key) # 0

RefOf(cc, key) == cc[KeyIndex(cc, key)][2]

RECURSIVE LoadCompanies(_, _, _)
LoadCompanies(raw, h, cc) ==
    IF raw = <<>> THEN [heap |-> h, company_configs |-> cc]
    ELSE LET key  == Lower(Head(raw)[1])
             cfg  == Head(raw)[2]
             h2   == Append(Append(h, [data |-> cfg.selectors, child |-> 0]),
                            [data |-> [enabled |-> cfg.enabled,
                                       scraper_class |-> cfg.scraper_class,
                                       module |-> cfg.module,
                                       name |-> cfg.name],
                             child |-> Len(h) + 1])
             ref  == Len(h) + 2
             cc2  == IF HasKey(cc, key)
                     THEN [cc EXCEPT ![KeyIndex(cc, key)] = <<key, ref>>]
                     ELSE Append(cc, <<key, ref>>)
         IN  LoadCompanies(Tail(raw), h2, cc2)

(***************************************************************************)
(* Configuration files the factory is loaded from.                         *)
(***************************************************************************)
ResolutionHints ==
    { [scraper_class |-> "absent",      module |-> "absent"],
      [scraper_class |-> "",            module |-> "plugins.good"],
      [scraper_class |-> "MetaScraper", module |-> "absent"],
      [scraper_class |-> "AltScraper",  module |-> "plugins.good"],
      [scraper_class |-> "Helper",      module |-> "plugins.good"],
      [scraper_class |-> "Nope",        module |-> "plugins.good"] }

CompanyCfgs ==
    { [enabled |-> e, scraper_class |-> hnt.scraper_class, module |-> hnt.module,
       name |-> "Meta", selectors |-> "div.job"] :
         e \in {"true", "false", "absent"}, hnt \in ResolutionHints }
    \cup
    { [enabled |-> "true", scraper_class |-> "absent", module |-> "absent",
       name |-> "Initech", selectors |-> "div.job"] }

\* The second employer of a file.
OtherCfgs ==
    { [enabled |-> "false",  scraper_class |-> "AltScraper",  module |-> "plugins.good",
       name |-> "Amazon", selectors |-> "li.job"],
      [enabled |-> "true",   scraper_class |-> "MetaScraper", module |-> "absent",
       name |-> "Amazon", selectors |-> "li.job"],
      [enabled |-> "absent", scraper_class |-> "AltScraper",  module |-> "plugins.good",
       name |-> "Amazon", selectors |-> "li.job"] }

\* The "companies" object of a configuration file, in file order.
ConfigFiles ==
    { << <<"Meta", c1>>, <<"amazon", c2>> >> : c1 \in CompanyCfgs, c2 \in OtherCfgs }
    \cup
    { << <<"AMAZON", c2>>, <<"meta", c1>> >> :
        c1 \in {c \in CompanyCfgs : c.scraper_class = "AltScraper"}, c2 \in OtherCfgs }
    \cup
    { << <<"META", c1>> >> : c1 \in {c \in CompanyCfgs : c.scraper_class = "MetaScraper"} }

\* Files whose employers can all be resolved by convention, the first of
\* them enabled.
ResolvableFiles ==
    { f \in ConfigFiles :
        \A i \in 1..Len(f) :
            /\ f[i][2].scraper_class \in {"AltScraper", "MetaScraper"}
            /\ Lower(f[i][1]) = "meta" => f[i][2].enabled = "true" }

GlobalCfg ==
    [top |-> [default_rate_limit |-> "2"], rules |-> "threshold=0.3"]

CompanyNames == {"meta", "amazon", "apple", "netflix", "google"}

\* register_scraper without the look-up of the key in _company_configs.
register_scraper_any_key(reg, cc, company_key, scraper_cls) ==
    IF ~IsSubclassOfBaseScraper(scraper_cls)
    THEN [result |-> "TypeError", registry |-> reg]
    ELSE [result |-> "ok", registry |-> [reg EXCEPT ![Lower(company_key)] = scraper_cls]]

\* register_scraper as _registry.setdefault(key, cls): an entry that is there stays.
register_scraper_setdefault(reg, cc, company_key, scraper_cls) ==
    IF ~IsSubclassOfBaseScraper(scraper_cls)
    THEN [result |-> "TypeError", registry |-> reg]
    ELSE IF ~HasKey(cc, Lower(company_key))
    THEN [result |-> "KeyError", registry |-> reg]
    ELSE [result |-> "ok",
          registry |-> IF reg[Lower(company_key)] # "none" THEN reg
                       ELSE [reg EXCEPT ![Lower(company_key)] = scraper_cls]]

(***************************************************************************)
(* ScraperFactory.register_scraper.                                        *)
(***************************************************************************)
register_scraper(reg, cc, company_key, scraper_cls) ==
    IF ~IsSubclassOfBaseScraper(scraper_cls)
    THEN [result |-> "TypeError", registry |-> reg]
    ELSE LET normalized_key == Lower(company_key)
         IN  IF ~HasKey(cc, normalized_key)
             THEN [result |-> "KeyError", registry |-> reg]
             ELSE [result |-> "ok",
                   registry |-> [reg EXCEPT ![normalized_key] = scraper_cls]]

\* ScraperFactory.registered_companies.
registered_companies(reg) == {k \in DOMAIN reg : reg[k] # "none"}

\* available_companies without the filter on "enabled".
RECURSIVE available_companies_unfiltered(_, _, _)
available_companies_unfiltered(h, cc, include_disabled) ==
    IF cc = <<>> THEN <<>>
    ELSE <<Head(cc)[1]>> \o available_companies_unfiltered(h, Tail(cc), include_disabled)

(***************************************************************************)
(* ScraperFactory.available_companies: the keys the generator yields, in   *)
(* the order of _company_configs.                                          *)
(***************************************************************************)
RECURSIVE available_companies(_, _, _)
available_companies(h, cc, include_disabled) ==
    IF cc = <<>> THEN <<>>
    ELSE LET key    == Head(cc)[1]
             config == h[Head(cc)[2]].data
             rest   == available_companies(h, Tail(cc), include_disabled)
         IN  IF include_disabled \/ Truthy(DictGet(config, "enabled", "true"))
             THEN <<key>> \o rest
             ELSE rest

(***************************************************************************)
(* ScraperFactory.get_company_config: a deep copy of the configuration.    *)
(***************************************************************************)
get_company_config(h, cc, company_key) ==
    LET normalized_key == Lower(company_key)
    IN  IF ~HasKey(cc, normalized_key)
        THEN [result |-> "KeyError", heap |-> h, ref |-> 0]
        ELSE LET c == DeepCopy(h, RefOf(cc, normalized_key))
             IN  [result |-> "ok", heap |-> c.heap, ref |-> c.ref]

\* _get_scraper_class without the check that a class name is configured.
get_scraper_class_unchecked_name(reg, company_key, company_config) ==
    IF reg[company_key] # "none"
    THEN [result |-> "ok", cls |-> reg[company_key], registry |-> reg, imports |-> <<>>]
    ELSE
    LET class_name  == DictGet(company_config, "scraper_class", "")
        module_path == DictGet(company_config, "module", DefaultModulePath(company_key))
        module      == ImportModule(module_path)
    IN  IF ~module.ok
        THEN [result |-> "ModuleNotFoundError", cls |-> "none", registry |-> reg,
              imports |-> <<module_path>>]
        ELSE IF class_name \notin module.attrs
        THEN [result |-> "AttributeError", cls |-> "none", registry |-> reg,
              imports |-> <<module_path>>]
        ELSE IF ~IsSubclassOfBaseScraper(class_name)
        THEN [result |-> "TypeError", cls |-> "none", registry |-> reg,
              imports |-> <<module_path>>]
        ELSE [result |-> "ok", cls |-> class_name,
              registry |-> [reg EXCEPT ![company_key] = class_name],
              imports |-> <<module_path>>]

\* _get_scraper_class without the write to the registry.
get_scraper_class_uncached(reg, company_key, company_config) ==
    IF reg[company_key] # "none"
    THEN [result |-> "ok", cls |-> reg[company_key], registry |-> reg, imports |-> <<>>]
    ELSE
    LET class_name  == DictGet(company_config, "scraper_class", "")
        module_path == DictGet(company_config, "module", DefaultModulePath(company_key))
        module      == ImportModule(module_path)
    IN  IF ~Truthy(class_name)
        THEN [result |-> "ValueError:no_class", cls |-> "none", registry |-> reg,
              imports |-> <<>>]
        ELSE IF ~module.ok
        THEN [result |-> "ModuleNotFoundError", cls |-> "none", registry |-> reg,
              imports |-> <<module_path>>]
        ELSE IF class_name \notin module.attrs
        THEN [result |-> "AttributeError", cls |-> "none", registry |-> reg,
              imports |-> <<module_path>>]
        ELSE IF ~IsSubclassOfBaseScraper(class_name)
        THEN [result |-> "TypeError", cls |-> "none", registry |-> reg,
              imports |-> <<module_path>>]
        ELSE [result |-> "ok", cls |-> class_name, registry |-> reg,
              imports |-> <<module_path>>]

(***************************************************************************)
(* ScraperFactory._get_scraper_class: the registry entry if there is one,  *)
(* else the class the configuration names, cached in the registry.         *)
(***************************************************************************)
get_scraper_class(reg, company_key, company_config) ==
    IF reg[company_key] # "none"
    THEN [result |-> "ok", cls |-> reg[company_key], registry |-> reg, imports |-> <<>>]
    ELSE
    LET class_name  == DictGet(company_config, "scraper_class", "")
        module_path == DictGet(company_config, "module", DefaultModulePath(company_key))
        module      == ImportModule(module_path)
    IN  IF ~Truthy(class_name)
        THEN [result |-> "ValueError:no_class", cls |-> "none", registry |-> reg,
              imports |-> <<>>]
        ELSE IF ~module.ok
        THEN [result |-> "ModuleNotFoundError", cls |-> "none", registry |-> reg,
              imports |-> <<module_path>>]
        ELSE IF class_name \notin module.attrs
        THEN [result |-> "AttributeError", cls |-> "none", registry |-> reg,
              imports |-> <<module_path>>]
        ELSE IF ~IsSubclassOfBaseScraper(class_name)
        THEN [result |-> "TypeError", cls |-> "none", registry |-> reg,
              imports |-> <<module_path>>]
        ELSE [result |-> "ok", cls |-> class_name,
              registry |-> [reg EXCEPT ![company_key] = class_name],
              imports |-> <<module_path>>]

(***************************************************************************)
(* BaseScraper.__init__ as far as the factory sees it: CompanyName(...)    *)
(* raises ValueError for a name that is no member of the enumeration.      *)
(***************************************************************************)
ConstructorAccepts(company_config) == Lower(company_config.name) \in CompanyNames

(***************************************************************************)
(* ScraperFactory.create_scraper.  The result is "ok" or the exception     *)
(* raised: "KeyError" (NotFound), "ValueError:disabled" (Disabled),        *)
(* "ValueError:no_class", "ModuleNotFoundError", "AttributeError",         *)
(* "TypeError" (Misconfigured), "ValueError:name" (from the constructor).  *)
(* Copies made by a call that raises are unreachable and are dropped.      *)
(***************************************************************************)
NoInstance == [cls |-> "none", company_config |-> 0, global_config |-> 0]

\* create_scraper with the class resolved before "enabled" is looked at.
create_scraper_resolving_first(h, cc, g, reg, company_key) ==
    LET normalized_key == Lower(company_key)
        copied         == get_company_config(h, cc, normalized_key)
    IN  IF copied.result # "ok"
        THEN [result |-> "KeyError", cls |-> "none", registry |-> reg, heap |-> h,
              imports |-> <<>>, instance |-> NoInstance]
        ELSE
        LET company_config == copied.heap[copied.ref].data
            resolved       == get_scraper_class(reg, normalized_key, company_config)
            gcopy          == DeepCopy(copied.heap, g)
        IN  IF resolved.result # "ok"
            THEN [result |-> resolved.result, cls |-> "none",
                  registry |-> resolved.registry, heap |-> h,
                  imports |-> resolved.imports, instance |-> NoInstance]
            ELSE IF ~Truthy(DictGet(company_config, "enabled", "true"))
            THEN [result |-> "ValueError:disabled", cls |-> "none",
                  registry |-> resolved.registry, heap |-> h,
                  imports |-> resolved.imports, instance |-> NoInstance]
            ELSE IF ~ConstructorAccepts(company_config)
            THEN [result |-> "ValueError:name", cls |-> resolved.cls,
                  registry |-> resolved.registry, heap |-> h,
                  imports |-> resolved.imports, instance |-> NoInstance]
            ELSE [result |-> "ok", cls |-> resolved.cls,
                  registry |-> resolved.registry, heap |-> gcopy.heap,
                  imports |-> resolved.imports,
                  instance |-> [cls |-> resolved.cls,
                                company_config |-> copied.ref,
                                global_config |-> gcopy.ref]]

create_scraper(h, cc, g, reg, company_key) ==
    LET normalized_key == Lower(company_key)
        copied         == get_company_config(h, cc, normalized_key)
    IN  IF copied.result # "ok"
        THEN [result |-> "KeyError", cls |-> "none", registry |-> reg, heap |-> h,
              imports |-> <<>>, instance |-> NoInstance]
        ELSE
        LET company_config == copied.heap[copied.ref].data
        IN  IF ~Truthy(DictGet(company_config, "enabled", "true"))
            THEN [result |-> "ValueError:disabled", cls |-> "none", registry |-> reg,
                  heap |-> h, imports |-> <<>>, instance |-> NoInstance]
            ELSE
            LET resolved == get_scraper_class(reg, normalized_key, company_config)
                gcopy    == DeepCopy(copied.heap, g)
            IN  IF resolved.result # "ok"
                THEN [result |-> resolved.result, cls |-> "none",
                      registry |-> resolved.registry, heap |-> h,
                      imports |-> resolved.imports, instance |-> NoInstance]
                ELSE IF ~ConstructorAccepts(company_config)
                THEN [result |-> "ValueError:name", cls |-> resolved.cls,
                      registry |-> resolved.registry, heap |-> h,
                      imports |-> resolved.imports, instance |-> NoInstance]
                ELSE [result |-> "ok", cls |-> resolved.cls,
                      registry |-> resolved.registry, heap |-> gcopy.heap,
                      imports |-> resolved.imports,
                      instance |-> [cls |-> resolved.cls,
                                    company_config |-> copied.ref,
                                    global_config |-> gcopy.ref]]

(***************************************************************************)
(* Factory: initial states and actions.                                    *)
(***************************************************************************)
NoCall == [op |-> "none", key |-> "", cls |-> "none", result |-> "", imports |-> <<>>,
           keys |-> <<>>]

InitFrom(files) ==
    \E file \in files :
        LET h0     == << [data |-> GlobalCfg.rules, child |-> 0],
                         [data |-> GlobalCfg.top, child |-> 1] >>
            loaded == LoadCompanies(file, h0, <<>>)
        IN  /\ heap = loaded.heap
            /\ company_configs = loaded.company_configs
            /\ global_config = 2
            /\ registry = [k \in Keys |-> "none"]
            /\ scrapers = <<>>
            /\ explicit = [k \in Keys |-> "none"]
            /\ last = NoCall

Register(k, c) ==
    LET r == register_scraper(registry, company_configs, k, c)
    IN  /\ registry' = r.registry
        /\ explicit' = IF r.result = "ok" THEN [explicit EXCEPT ![Lower(k)] = c]
                       ELSE explicit
        /\ last' = [NoCall EXCEPT !.op = "register", !.key = k, !.cls = c,
                                  !.result = r.result]
        /\ UNCHANGED <<heap, company_configs, global_config, scrapers, rvars, cvars>>

Create(k) ==
    /\ Len(scrapers) < MaxScrapers
    /\ LET r == create_scraper(heap, company_configs, global_config, registry, k)
       IN  /\ heap' = r.heap
           /\ registry' = r.registry
           /\ scrapers' = IF r.result = "ok" THEN Append(scrapers, r.instance)
                          ELSE scrapers
           /\ last' = [NoCall EXCEPT !.op = "create", !.key = k, !.cls = r.cls,
                                     !.result = r.result, !.imports = r.imports]
    /\ UNCHANGED <<company_configs, global_config, explicit, rvars, cvars>>

Available(include_disabled) ==
    /\ last' = [NoCall EXCEPT !.op = IF include_disabled THEN "available_all"
                                     ELSE "available",
                              !.keys = available_companies(heap, company_configs,
                                                           include_disabled)]
    /\ UNCHANGED <<heap, company_configs, global_config, registry, scrapers, explicit, rvars, cvars>>

(***************************************************************************)
(* A scraper instance writes to the dictionaries it was constructed with:  *)
(* company_config["enabled"] = False, company_config["selectors"][...] =   *)
(* ..., global_config["default_rate_limit"] = ...,                         *)
(* global_config["categorization_rules"][...] = ...  Each write is taken   *)
(* once per dictionary: writing the same value again changes nothing.      *)
(***************************************************************************)
Touched(i) == [NoCall EXCEPT !.op = "mutate", !.key = ToString(i)]

MutateCompanyConfig(i) ==
    /\ i \in 1..Len(scrapers)
    /\ heap[scrapers[i].company_config].data.enabled # "false"
    /\ heap' = [heap EXCEPT ![scrapers[i].company_config].data.enabled = "false"]
    /\ last' = Touched(i)
    /\ UNCHANGED <<company_configs, global_config, registry, scrapers, explicit, rvars, cvars>>

MutateSelectors(i) ==
    /\ i \in 1..Len(scrapers)
    /\ heap[heap[scrapers[i].company_config].child].data # "MUTATED"
    /\ heap' = [heap EXCEPT ![heap[scrapers[i].company_config].child].data = "MUTATED"]
    /\ last' = Touched(i)
    /\ UNCHANGED <<company_configs, global_config, registry, scrapers, explicit, rvars, cvars>>

MutateGlobalConfig(i) ==
    /\ i \in 1..Len(scrapers)
    /\ heap[scrapers[i].global_config].data.default_rate_limit # "MUTATED"
    /\ heap' = [heap EXCEPT ![scrapers[i].global_config].data.default_rate_limit = "MUTATED"]
    /\ last' = Touched(i)
    /\ UNCHANGED <<company_configs, global_config, registry, scrapers, explicit, rvars, cvars>>

MutateRules(i) ==
    /\ i \in 1..Len(scrapers)
    /\ heap[heap[scrapers[i].global_config].child].data # "MUTATED"
    /\ heap' = [heap EXCEPT ![heap[scrapers[i].global_config].child].data = "MUTATED"]
    /\ last' = Touched(i)
    /\ UNCHANGED <<company_configs, global_config, registry, scrapers, explicit, rvars, cvars>>

RegisterSome == \E k \in CallKeys, c \in {"DummyScraper", "OtherScraper", "Helper"} : Register(k, c)
CreateSome == \E k \in CallKeys : Create(k)
AvailableSome == \E b \in BOOLEAN : Available(b)
MutateCompanyConfigSome == \E i \in 1..MaxScrapers : MutateCompanyConfig(i)
MutateSelectorsSome == \E i \in 1..MaxScrapers : MutateSelectors(i)
MutateGlobalConfigSome == \E i \in 1..MaxScrapers : MutateGlobalConfig(i)
MutateRulesSome == \E i \in 1..MaxScrapers : MutateRules(i)

(***************************************************************************)
(* Text.  A string is a sequence of lexemes: "sp" (one whitespace          *)
(* character), "lt" and "gt" (the characters < and >), "ctl" (a control    *)
(* character that is not whitespace) and words.  A raw field is            *)
(* [kind |-> "str", text |-> t], [kind |-> "missing"] (no such key, or     *)
(* None) or [kind |-> "int"] (a non-zero number put there by an extractor).*)
(***************************************************************************)
Punct == {"sp", "lt", "gt", "ctl"}

Range(q) == {q[i] : i \in 1..Len(q)}

Str(t) == [kind |-> "str", text |-> t]
Missing == [kind |-> "missing", text |-> <<>>]
NotAString == [kind |-> "int", text |-> <<>>]

\* str.lower() on a word.
LowerWord(w) ==
    CASE w = "Senior" -> "senior"
      [] w = "Junior" -> "junior"
      [] w = "Director" -> "director"
      [] w = "Engineer" -> "engineer"
      [] w = "Remote" -> "remote"
      [] w = "Office" -> "office"
      [] w = "NYC" -> "nyc"
      [] w = "Data" -> "data"
      [] w = "Engineering" -> "engineering"
      [] OTHER -> w

LowerText(t) == [i \in 1..Len(t) |-> LowerWord(t[i])]

\* The markers and keywords that are substrings of a lower-case word.
SubstringsOf(w) ==
    CASE w = "senior" -> {"senior"}
      [] w = "junior" -> {"junior"}
      [] w = "director" -> {"director", "cto"}
      [] w = "engineer" -> {"engineer"}
      [] w = "intern" -> {"intern"}
      [] w = "remote" -> {"remote"}
      [] w = "hybrid" -> {"hybrid"}
      [] w = "office" -> {"office"}
      [] w = "data" -> {"data"}
      [] w = "engineering" -> {"engineering", "engineer"}
      [] OTHER -> {}

\* The needles that contain whitespace, as lexemes.
Phrases ==
    ("part time" :> <<"part", "sp", "time">>) @@
    ("head of" :> <<"head", "sp", "of">>) @@
    ("vice president" :> <<"vice", "sp", "president">>) @@
    ("entry level" :> <<"entry", "sp", "level">>) @@
    ("work from home" :> <<"work", "sp", "from", "sp", "home">>) @@
    ("optional remote" :> <<"optional", "sp", "remote">>) @@
    ("flexible work" :> <<"flexible", "sp", "work">>) @@
    ("remote optional" :> <<"remote", "sp", "optional">>) @@
    ("software engineer" :> <<"software", "sp", "engineer">>)

IsSingleWord(needle) == needle \notin DOMAIN Phrases

\* Python's `needle in text`.
Contains(t, needle) ==
    IF IsSingleWord(needle)
    THEN \E i \in 1..Len(t) : needle \in SubstringsOf(t[i])
    ELSE LET ph == Phrases[needle]
         IN  \E i \in 1..(Len(t) - Len(ph) + 1) : SubSeq(t, i, i + Len(ph) - 1) = ph

ContainsAny(t, needles) == \E n \in needles : Contains(t, n)

\* str.strip(): leading and trailing whitespace removed.
RECURSIVE LStrip(_)
LStrip(t) == IF t # <<>> /\ Head(t) = "sp" THEN LStrip(Tail(t)) ELSE t

RECURSIVE RStrip(_)
RStrip(t) ==
    IF t # <<>> /\ t[Len(t)] = "sp" THEN RStrip(SubSeq(t, 1, Len(t) - 1)) ELSE t

Strip(t) == RStrip(LStrip(t))

\* re.sub(r'\s+', ' ', t)
RECURSIVE CollapseWhitespace(_)
CollapseWhitespace(t) ==
    IF Len(t) < 2 THEN t
    ELSE IF t[1] = "sp" /\ t[2] = "sp" THEN CollapseWhitespace(Tail(t))
    ELSE <<Head(t)>> \o CollapseWhitespace(Tail(t))

\* re.sub(r'<[^>]+>', '', t): leftmost matches, each "<", one or more
\* characters other than ">", and the first ">" after them.
FirstGt(t) ==
    LET hits == {j \in 2..Len(t) : t[j] = "gt"}
    IN  IF hits = {} THEN 0 ELSE CHOOSE j \in hits : \A k \in hits : j <= k

RECURSIVE RemoveTags(_)
RemoveTags(t) ==
    IF t = <<>> THEN <<>>
    ELSE IF Head(t) = "lt" /\ FirstGt(t) >= 3
    THEN RemoveTags(SubSeq(t, FirstGt(t) + 1, Len(t)))
    ELSE <<Head(t)>> \o RemoveTags(Tail(t))

\* re.sub(r'[\x00-\x1f\x7f-\x9f]', '', t)
RemoveControl(t) == SelectSeq(t, LAMBDA c : c # "ctl")

(***************************************************************************)
(* BaseScraper._clean_text.  raised: the call raised (the value is no      *)
(* string); none: the result is None.                                      *)
(***************************************************************************)
Cleaned(t) == [raised |-> FALSE, none |-> t = <<>>, text |-> t]

clean_text(v) ==
    IF v.kind = "missing" \/ (v.kind = "str" /\ v.text = <<>>)
    THEN [raised |-> FALSE, none |-> TRUE, text |-> <<>>]
    ELSE IF v.kind # "str"
    THEN [raised |-> TRUE, none |-> TRUE, text |-> <<>>]
    ELSE Cleaned(RemoveControl(RemoveTags(CollapseWhitespace(Strip(v.text)))))

(***************************************************************************)
(* The enumerations of data/models.py.                                     *)
(***************************************************************************)
JobTypeMembers == {"FULL_TIME", "PART_TIME", "CONTRACT", "INTERNSHIP", "TEMPORARY", "FREELANCE"}

ExperienceLevelMembers == {"ENTRY", "MID", "SENIOR", "LEAD", "DIRECTOR", "EXECUTIVE"}

WorkplaceTypeMembers == {"ONSITE", "REMOTE", "HYBRID", "UNKNOWN"}

JobCategoryMembers ==
    {"technology", "data", "product", "design", "sales", "marketing", "operations",
     "finance", "hr", "legal", "customer_success", "consulting", "other"}

\* f"{a} {b}".lower()
Joined(a, b) == LowerText(a \o <<"sp">> \o b)

(***************************************************************************)
(* BaseScraper._determine_job_type: the name of the JobType attribute the  *)
(* code returns.                                                           *)
(***************************************************************************)
JobTypeOf(text) ==
        IF ContainsAny(text, {"intern", "internship", "student"}) THEN "INTERNSHIP"
        ELSE IF ContainsAny(text, {"contract", "contractor", "temporary", "temp"}) THEN "CONTRACT"
        ELSE IF ContainsAny(text, {"part time", "part-time", "parttime"}) THEN "PART_TIME"
        ELSE IF ContainsAny(text, {"freelance", "freelancer", "consultant"}) THEN "FREELANCE"
        ELSE "FULL_TIME"

determine_job_type(title, description) == JobTypeOf(Joined(title, description))

(***************************************************************************)
(* re.search(r'\bN\s*years?\b', text) for N one of the lexemes in nums: N  *)
(* at a word boundary, optional whitespace, then "year" or "years".        *)
(***************************************************************************)
RECURSIVE YearsFollow(_, _)
YearsFollow(t, i) ==
    IF i > Len(t) THEN FALSE
    ELSE IF t[i] = "sp" THEN YearsFollow(t, i + 1)
    ELSE t[i] \in {"year", "years"} /\ (i = Len(t) \/ t[i + 1] \in Punct)

YearsPattern(t, nums) ==
    \E i \in 1..Len(t) :
        /\ t[i] \in nums
        /\ (i = 1 \/ t[i - 1] \in Punct)
        /\ YearsFollow(t, i + 1)

(***************************************************************************)
(* BaseScraper._determine_experience_level: the name of the                *)
(* ExperienceLevel attribute the code reads.                               *)
(***************************************************************************)
ExperienceLevelOf(title_lower, text) ==
        IF ContainsAny(title_lower, {"senior", "sr.", "lead", "staff"}) THEN "SENIOR"
        ELSE IF ContainsAny(title_lower, {"junior", "jr.", "entry", "associate"})
        THEN (IF Contains(title_lower, "entry") THEN "ENTRY_LEVEL" ELSE "ASSOCIATE")
        ELSE IF ContainsAny(title_lower, {"principal", "architect", "distinguished"})
        THEN "PRINCIPAL"
        ELSE IF ContainsAny(title_lower, {"director", "head of", "vp", "vice president"}) THEN "DIRECTOR"
        ELSE IF ContainsAny(title_lower, {"cto", "ceo", "cmo", "cfo", "chief"}) THEN "C_LEVEL"
        ELSE IF YearsPattern(text, {"0-2"}) \/ Contains(text, "entry level") THEN "ENTRY_LEVEL"
        ELSE IF YearsPattern(text, {"2-4"}) THEN "ASSOCIATE"
        ELSE IF YearsPattern(text, {"4-7"}) THEN "MID_LEVEL"
        ELSE IF YearsPattern(text, {"7", "7+", "8", "8+"}) THEN "SENIOR"
        ELSE "UNKNOWN"

determine_experience_level(title, description) ==
    ExperienceLevelOf(LowerText(title), Joined(title, description))

(***************************************************************************)
(* BaseScraper._determine_workplace_type: the name of the WorkplaceType    *)
(* attribute the code reads.                                               *)
(***************************************************************************)
WorkplaceTypeOf(text) ==
        IF ContainsAny(text, {"remote", "work from home", "telecommute", "distributed"})
        THEN (IF ContainsAny(text, {"hybrid", "flexible", "optional remote"})
              THEN "HYBRID" ELSE "REMOTE")
        ELSE IF ContainsAny(text, {"hybrid", "flexible work", "remote optional"}) THEN "HYBRID"
        ELSE IF ContainsAny(text, {"on-site", "onsite", "office", "in-person"}) THEN "ON_SITE"
        ELSE "UNKNOWN"

determine_workplace_type(location, description) ==
    WorkplaceTypeOf(Joined(location, description))

(***************************************************************************)
(* JobCategorizer.  Weights and scores are in hundredths.                  *)
(***************************************************************************)
TitleWeight == 60
DepartmentWeight == 30
DescriptionWeight == 10
ExactMatchBonus == 200
MinConfidenceThreshold == 30
DescriptionSample == 500

\* global_config["job_categories"], in declaration order.
JobCategories ==
    << [id |-> "technology",
        keywords |-> <<"Engineer", "software engineer">>,
        departments |-> <<"engineering">>],
       [id |-> "data",
        keywords |-> <<"data">>,
        departments |-> <<"analytics">>],
       [id |-> "research",
        keywords |-> <<"hybrid">>,
        departments |-> <<>>] >>

\* self.rules.get(name, default) for every rule: the rules of a configuration
\* that sets none of them.  The description weight is even, so that its half
\* is exact.
DefaultRules ==
    [title_weight |-> TitleWeight, department_weight |-> DepartmentWeight,
     description_weight |-> DescriptionWeight, exact_match_bonus |-> ExactMatchBonus,
     min_confidence_threshold |-> MinConfidenceThreshold]

NoResult ==
    [title |-> <<>>, description |-> <<>>, department |-> <<>>, called |-> FALSE,
     scores |-> <<>>, best_category_id |-> "none", category |-> "other",
     confidence |-> <<0, 1>>]

\* JobCategorizer.__init__ with the configuration above.
DefaultCategorizer ==
    /\ categories = JobCategories
    /\ rules = DefaultRules
    /\ result = NoResult

\* JobCategorizer._find_keyword_matches
find_keyword_matches(text, keywords) ==
    SelectSeq(keywords,
        LAMBDA keyword :
            \/ Contains(text, LowerWord(keyword))
            \/ /\ ~IsSingleWord(keyword)
               /\ \A i \in 1..Len(Phrases[keyword]) :
                     Phrases[keyword][i] = "sp"
                     \/ Contains(text, LowerWord(Phrases[keyword][i])))

\* len(w) for a lexeme.  "filler" stands for a run of characters without
\* whitespace that holds no keyword and is three characters short of the
\* sample of the description.
CharLen(w) ==
    IF w \in Punct THEN 1
    ELSE IF w = "filler" THEN DescriptionSample - 3
    ELSE Len(w)

\* w[:n] for a lexeme longer than n.
Cut(w, n) == IF w = "filler" THEN w ELSE SubSeq(w, 1, n)

\* t[:n], n counting characters.
RECURSIVE Take(_, _)
Take(t, n) ==
    IF t = <<>> \/ n <= 0 THEN <<>>
    ELSE IF CharLen(Head(t)) <= n
    THEN <<Head(t)>> \o Take(Tail(t), n - CharLen(Head(t)))
    ELSE <<Cut(Head(t), n)>>

\* description_lower[:500]
Sample(description_lower) == Take(description_lower, DescriptionSample)

\* The score with the bonus earned once by a single-word keyword, in however
\* many fields it matched.
ScoreOf_bonus_once(title_matches, desc_matches, dept_matches) ==
    Len(title_matches) * rules.title_weight
    + (Len(desc_matches) * rules.description_weight) \div 2
    + Len(dept_matches) * rules.department_weight
    + Cardinality({ m \in Range(title_matches \o desc_matches \o dept_matches) :
                       IsSingleWord(m) })
      * rules.exact_match_bonus

\* The score of one category from its matches (the body of the loop of
\* categorize_job); every single-word match earns the bonus.
ScoreOf(title_matches, desc_matches, dept_matches) ==
    Len(title_matches) * rules.title_weight
    + (Len(desc_matches) * rules.description_weight) \div 2
    + Len(dept_matches) * rules.department_weight
    + Len(SelectSeq(title_matches \o desc_matches \o dept_matches, IsSingleWord))
      * rules.exact_match_bonus

CategoryScore(category_info, title_lower, description_lower, department_lower) ==
    ScoreOf(find_keyword_matches(title_lower, category_info.keywords),
            find_keyword_matches(Sample(description_lower), category_info.keywords),
            find_keyword_matches(department_lower, category_info.departments))

\* The last category with the highest score.
BestCategory_last(scores) ==
    CHOOSE i \in 1..Len(scores) :
        /\ scores[i] > 0
        /\ \A j \in 1..Len(scores) : scores[j] <= scores[i]
        /\ \A j \in (i + 1)..Len(scores) : scores[j] < scores[i]

\* max(scores.items(), key=...): the first category with the highest score.
BestCategory(scores) ==
    CHOOSE i \in 1..Len(scores) :
        /\ scores[i] > 0
        /\ \A j \in 1..Len(scores) : scores[j] <= scores[i]
        /\ \A j \in 1..(i - 1) : scores[j] < scores[i]

\* The quotient without min(..., 1.0).
Confidence_unclamped(best_score, max_possible_score) ==
    IF max_possible_score > 0
    THEN <<best_score, max_possible_score>>
    ELSE <<0, 1>>

\* min(best_score / max_possible_score, 1.0) if max_possible_score > 0 else 0.0,
\* as <<numerator, denominator>>.
Confidence(best_score, max_possible_score) ==
    IF max_possible_score > 0
    THEN (IF best_score >= max_possible_score THEN <<1, 1>>
          ELSE <<best_score, max_possible_score>>)
    ELSE <<0, 1>>

\* The threshold check returning confidence 0.0 with the catch-all.
Decide_resetting(best_category_id, confidence) ==
    IF confidence[1] * 100 < rules.min_confidence_threshold * confidence[2]
    THEN [category |-> "other", confidence |-> <<0, 1>>]
    ELSE [category |-> IF best_category_id \in JobCategoryMembers
                       THEN best_category_id ELSE "other",
          confidence |-> confidence]

\* The threshold check and the JobCategory(best_category_id) lookup.
Decide(best_category_id, confidence) ==
    IF confidence[1] * 100 < rules.min_confidence_threshold * confidence[2]
    THEN [category |-> "other", confidence |-> confidence]
    ELSE [category |-> IF best_category_id \in JobCategoryMembers
                       THEN best_category_id ELSE "other",
          confidence |-> confidence]

Selected(scores, best) ==
    Decide(categories[best].id,
           Confidence(scores[best], Len(categories[best].keywords) * rules.title_weight))

Categorized(scores) ==
    IF \A i \in 1..Len(scores) : scores[i] <= 0
    THEN [category |-> "other", confidence |-> <<0, 1>>]
    ELSE Selected(scores, BestCategory(scores))

(***************************************************************************)
(* JobCategorizer.categorize_job.  category is a member of JobCategory.    *)
(***************************************************************************)
Scores(title_lower, description_lower, department_lower) ==
    [i \in 1..Len(categories) |->
        CategoryScore(categories[i], title_lower, description_lower, department_lower)]

categorize_job(title, description, department) ==
    Categorized(Scores(LowerText(title), LowerText(description), LowerText(department)))

\* The local best_category_id of categorize_job, "none" when scores is empty.
BestCategoryId(scores) ==
    IF \A i \in 1..Len(scores) : scores[i] <= 0
    THEN "none"
    ELSE categories[BestCategory(scores)].id

(***************************************************************************)
(* The configurations a JobCategorizer is built from, and the texts it is  *)
(* given.  Weights, bonus and threshold are in hundredths.                 *)
(***************************************************************************)
CategoryConfigs ==
    { JobCategories,
      << [id |-> "data", keywords |-> <<"data">>, departments |-> <<"analytics">>],
         [id |-> "technology", keywords |-> <<"Engineer">>, departments |-> <<"engineering">>] >>,
      << [id |-> "technology", keywords |-> <<"Engineer">>, departments |-> <<"engineering">>],
         [id |-> "data", keywords |-> <<"data">>, departments |-> <<"analytics">>],
         [id |-> "operations", keywords |-> <<>>, departments |-> <<"engineering">>] >>,
      << [id |-> "operations", keywords |-> <<>>, departments |-> <<"engineering">>],
         [id |-> "research", keywords |-> <<"hybrid", "data", "Engineer">>, departments |-> <<>>] >> }

RuleConfigs ==
    [title_weight : {-60, 0, TitleWeight},
     department_weight : {0, DepartmentWeight},
     description_weight : {0, DescriptionWeight},
     exact_match_bonus : {-100, 0, ExactMatchBonus},
     min_confidence_threshold : {0, MinConfidenceThreshold, 100}]

CategorizerTitles ==
    { <<"Senior", "sp", "Engineer">>, <<"Data", "sp", "Engineer">>, <<"dev">>, <<>> }

CategorizerDescriptions ==
    { <<"build", "sp", "things">>, <<"hybrid", "sp", "remote">>,
      <<"7+", "sp", "years", "sp", "data">>,
      <<"filler", "sp", "data">> }

CategorizerDepartments == { <<>>, <<"Engineering">> }

\* JobCategorizer.__init__ with any of the configurations.
ConfiguredCategorizer ==
    /\ categories \in CategoryConfigs
    /\ rules \in RuleConfigs
    /\ result = NoResult

\* One categorize_job call.
Categorize ==
    \E title \in CategorizerTitles, description \in CategorizerDescriptions,
       department \in CategorizerDepartments :
        /\ result' =
               [title |-> title, description |-> description, department |-> department,
                called |-> TRUE,
                scores |-> Scores(LowerText(title), LowerText(description),
                                  LowerText(department)),
                best_category_id |->
                    BestCategoryId(Scores(LowerText(title), LowerText(description),
                                          LowerText(department))),
                category |-> categorize_job(title, description, department).category,
                confidence |-> categorize_job(title, description, department).confidence]
        /\ UNCHANGED <<categories, rules, fvars, rvars>>

(***************************************************************************)
(* BaseScraper._process_job_data.  job: the Job returned, NoJob for None;  *)
(* categorized: whether jobs_categorized was incremented; raised: whether  *)
(* the body of the method's try statement raised; escaped: whether an      *)
(* exception left the method.                                              *)
(***************************************************************************)
NoJob == [title |-> <<>>, description |-> <<>>, location |-> <<>>, category |-> "none",
          job_type |-> "none", experience_level |-> "none", workplace_type |-> "none"]

\* Job(...), reached only if every enumeration attribute read before it exists.
BuildJob(title, description, location, categorization, job_type, experience_level, workplace_type) ==
    IF \/ job_type \notin JobTypeMembers
       \/ experience_level \notin ExperienceLevelMembers
       \/ workplace_type \notin WorkplaceTypeMembers
    THEN [job |-> NoJob, categorized |-> TRUE, raised |-> TRUE]
    ELSE [job |-> [title |-> title, description |-> description, location |-> location,
                   category |-> categorization.category,
                   job_type |-> job_type,
                   experience_level |-> experience_level,
                   workplace_type |-> workplace_type],
          categorized |-> TRUE, raised |-> FALSE]

\* The body of the try statement without the check of the location.
Normalized_location_optional(title, description, location, department) ==
    IF title.raised \/ description.raised \/ location.raised \/ department.raised
    THEN [job |-> NoJob, categorized |-> FALSE, raised |-> TRUE]
    ELSE IF title.none \/ description.none
    THEN [job |-> NoJob, categorized |-> FALSE, raised |-> FALSE]
    ELSE BuildJob(title.text, description.text, location.text,
                  categorize_job(title.text, description.text, department.text),
                  determine_job_type(title.text, description.text),
                  determine_experience_level(title.text, description.text),
                  determine_workplace_type(location.text, description.text))

\* The body of the try statement after the four _clean_text calls.
Normalized(title, description, location, department) ==
    IF title.raised \/ description.raised \/ location.raised \/ department.raised
    THEN [job |-> NoJob, categorized |-> FALSE, raised |-> TRUE]
    ELSE IF title.none \/ description.none \/ location.none
    THEN [job |-> NoJob, categorized |-> FALSE, raised |-> FALSE]
    ELSE BuildJob(title.text, description.text, location.text,
                  categorize_job(title.text, description.text, department.text),
                  determine_job_type(title.text, description.text),
                  determine_experience_level(title.text, description.text),
                  determine_workplace_type(location.text, description.text))

\* except Exception: the error is logged and None is returned.
ExceptException(body) ==
    [job |-> IF body.raised THEN NoJob ELSE body.job,
     categorized |-> body.categorized,
     raised |-> body.raised,
     escaped |-> FALSE]

process_job_data(raw_job) ==
    ExceptException(
        Normalized(clean_text(raw_job.title), clean_text(raw_job.description),
                   clean_text(raw_job.location), clean_text(raw_job.department)))

(***************************************************************************)
(* The raw listings an extraction hook returns.                            *)
(***************************************************************************)
Item(t, d, l, dep) == [title |-> t, description |-> d, location |-> l, department |-> dep]

ValidSenior ==
    Item(Str(<<"Senior", "sp", "Engineer">>), Str(<<"build", "sp", "things">>),
         Str(<<"Remote">>), Missing)

ValidDirector ==
    Item(Str(<<"Director">>), Str(<<"7+", "sp", "years", "sp", "data">>),
         Str(<<"NYC">>), Str(<<"Engineering">>))

NoLocation ==
    Item(Str(<<"Senior", "sp", "Engineer">>), Str(<<"build", "sp", "things">>),
         Missing, Missing)

Unmarked ==
    Item(Str(<<"dev">>), Str(<<"build", "sp", "things">>), Str(<<"NYC">>), Missing)

BadTitle ==
    Item(NotAString, Str(<<"build", "sp", "things">>), Str(<<"NYC">>), Missing)

CoreItems == {ValidSenior, ValidDirector, NoLocation, Unmarked, BadTitle}

Titles ==
    { Str(<<"Senior", "sp", "Engineer">>),
      Str(<<"lt", "b", "gt", "Senior", "lt", "/b", "gt">>),
      Str(<<"dev">>),
      Str(<<"Junior", "sp", "dev">>),
      Str(<<"Director">>),
      Str(<<"sp", "lt", "b", "gt", "sp">>),
      Str(<<"ctl">>),
      Str(<<>>),
      Missing,
      NotAString }

Descriptions ==
    { Str(<<"build", "sp", "sp", "things">>),
      Str(<<"7+", "sp", "years">>),
      Str(<<"hybrid", "sp", "remote">>),
      Str(<<"office">>),
      Str(<<"sp">>),
      Missing }

Locations ==
    { Str(<<"NYC">>),
      Str(<<"Remote">>),
      Str(<<"Office">>),
      Str(<<"lt", "gt">>),
      Str(<<"ctl", "ctl">>),
      Missing }

Departments == { Missing, Str(<<"Engineering">>) }

AllItems ==
    { Item(t, d, l, dep) : t \in Titles, d \in Descriptions, l \in Locations,
                           dep \in Departments }

RECURSIVE ListsUpTo(_, _)
ListsUpTo(S, n) ==
    IF n = 0 THEN { <<>> }
    ELSE LET shorter == ListsUpTo(S, n - 1)
         IN  shorter \cup { Append(l, x) : l \in {m \in shorter : Len(m) = n - 1}, x \in S }

\* What _extract_job_listings returns in a run.
HookResults == ListsUpTo(CoreItems, MaxItems)

\* One listing of any shape, alone or after an accepted one.
ItemLists == { <<w>> : w \in AllItems } \cup { <<ValidSenior, w>> : w \in AllItems }

RateLimits == {0, 2}

(***************************************************************************)
(* BaseScraper.__init__ (the part scrape_jobs reads).                      *)
(***************************************************************************)
NewStats == [jobs_found |-> 0, jobs_processed |-> 0, jobs_categorized |-> 0,
             errors |-> <<>>]

NoLifecycleCall == [op |-> "none", result |-> "", detail |-> ""]

Running == [op |-> "scrape_jobs", result |-> "running", detail |-> ""]

\* No get_stats() call yet.
NoSnapshot ==
    [taken |-> FALSE, jobs_found |-> 0, jobs_processed |-> 0, jobs_categorized |-> 0,
     errors |-> "none"]

NewScraper ==
    /\ snapshot = NoSnapshot
    /\ call = NoLifecycleCall
    /\ driver = "none"
    /\ wait = "none"
    /\ rate_limit \in RateLimits
    /\ stats = NewStats
    /\ pc = "idle"
    /\ raw_jobs = <<>>
    /\ idx = 0
    /\ jobs = <<>>
    /\ handled = <<>>
    /\ delays = 0
    /\ runs = 0

\* A new, initialized scraper whose extraction hook has just returned.
HookReturned ==
    /\ snapshot = NoSnapshot
    /\ call = Running
    /\ driver = "live"
    /\ wait = "set"
    /\ rate_limit \in RateLimits
    /\ stats = NewStats
    /\ pc = "loop"
    /\ raw_jobs \in ItemLists
    /\ idx = 1
    /\ jobs = <<>>
    /\ handled = <<>>
    /\ delays = 0
    /\ runs = 0

(***************************************************************************)
(* BaseScraper._create_driver: a session ("live"), or the exception        *)
(* raised: ValueError for a browser type that is neither chrome nor        *)
(* firefox, else whatever the driver manager or the webdriver constructor  *)
(* raises when launch fails.                                               *)
(***************************************************************************)
BrowserTypes == {"chrome", "firefox", "safari"}

create_driver(browser_type, launch) ==
    IF browser_type \notin {"chrome", "firefox"} THEN "ValueError"
    ELSE IF launch # "ok" THEN "WebDriverException"
    ELSE "live"

\* initialize without its try statement.
initialize_unguarded(d, w, browser_type, launch, wait_made) ==
    IF create_driver(browser_type, launch) # "live"
    THEN [driver |-> d, wait |-> w, result |-> "raised",
          detail |-> create_driver(browser_type, launch)]
    ELSE IF ~wait_made
    THEN [driver |-> "live", wait |-> w, result |-> "raised", detail |-> "WebDriverWait"]
    ELSE [driver |-> "live", wait |-> "set", result |-> "True", detail |-> ""]

(***************************************************************************)
(* BaseScraper.initialize: _create_driver raises, or WebDriverWait raises  *)
(* after the driver was stored, or both succeed.  result is the value      *)
(* returned, detail the exception that was caught.                         *)
(***************************************************************************)
initialize(d, w, browser_type, launch, wait_made) ==
    IF create_driver(browser_type, launch) # "live"
    THEN [driver |-> d, wait |-> w, result |-> "False",
          detail |-> create_driver(browser_type, launch)]
    ELSE IF ~wait_made
    THEN [driver |-> "live", wait |-> w, result |-> "False", detail |-> "WebDriverWait"]
    ELSE [driver |-> "live", wait |-> "set", result |-> "True", detail |-> ""]

Initialized(r) ==
    /\ driver' = r.driver
    /\ wait' = r.wait
    /\ call' = [op |-> "initialize", result |-> r.result, detail |-> r.detail]

Initialize ==
    /\ pc = "idle"
    /\ \E browser_type \in BrowserTypes, launch \in {"ok", "fails"}, wait_made \in BOOLEAN :
          Initialized(initialize(driver, wait, browser_type, launch, wait_made))
    /\ UNCHANGED <<rate_limit, stats, raw_jobs, idx, jobs, handled, delays, runs, pc, snapshot, fvars, cvars>>

\* cleanup without the test of self.driver and without the try statement.
cleanup_unguarded(d, quit) ==
    IF d = "none" THEN [driver |-> d, result |-> "raised", detail |-> "AttributeError"]
    ELSE IF quit = "ok" THEN [driver |-> "dead", result |-> "returned", detail |-> "quit"]
    ELSE [driver |-> d, result |-> "raised", detail |-> "WebDriverException"]

(***************************************************************************)
(* BaseScraper.cleanup: self.driver.quit() when there is a driver; quit    *)
(* ends the session or raises, and what it raises is logged.  self.driver  *)
(* keeps the session object.  detail: "no_session" when quit was not       *)
(* called, "quit" when it returned, "quit_raised" when it raised.          *)
(***************************************************************************)
cleanup(d, quit) ==
    IF d = "none" THEN [driver |-> d, result |-> "returned", detail |-> "no_session"]
    ELSE IF quit = "ok" THEN [driver |-> "dead", result |-> "returned", detail |-> "quit"]
    ELSE [driver |-> d, result |-> "returned", detail |-> "quit_raised"]

CleanedUp(r) ==
    /\ driver' = r.driver
    /\ call' = [op |-> "cleanup", result |-> r.result, detail |-> r.detail]

Cleanup ==
    /\ pc = "idle"
    /\ \E quit \in {"ok", "raises"} : CleanedUp(cleanup(driver, quit))
    /\ UNCHANGED <<wait, rate_limit, stats, raw_jobs, idx, jobs, handled, delays, runs, pc, snapshot, fvars, cvars>>

(***************************************************************************)
(* scrape_jobs up to the for loop: driver.get, _wait_for_page_load (a      *)
(* TimeoutException is caught there and the run goes on), the extraction   *)
(* hook.  Any other exception goes to the outer except clause.             *)
(***************************************************************************)
StartOutcomes ==
    IF driver # "live" THEN {"navigation"}
    ELSE IF wait # "set" THEN {"navigation", "page_load"}
    ELSE {"navigation", "page_load", "extraction", "ok"}

\* The outer except clause raising the exception again after recording it.
OuterExcept_reraising(errors, e) ==
    [errors |-> Append(errors, e), pc |-> "cancelled"]

\* except Exception as e: the error is logged, str(e) is appended to the
\* errors, and scrape_jobs goes on to return jobs.
OuterExcept(errors, e) ==
    [errors |-> Append(errors, e), pc |-> "returning"]

RunStart ==
    /\ pc = "idle"
    /\ runs < MaxRuns
    /\ \E outcome \in StartOutcomes :
        IF outcome = "ok"
        THEN /\ raw_jobs' \in HookResults
             /\ pc' = "loop"
             /\ idx' = 1
             /\ stats' = stats
        ELSE /\ raw_jobs' = <<>>
             /\ pc' = OuterExcept(stats.errors, outcome).pc
             /\ idx' = 0
             /\ stats' = [stats EXCEPT !.errors = OuterExcept(stats.errors, outcome).errors]
    /\ call' = Running
    /\ jobs' = <<>>
    /\ handled' = <<>>
    /\ delays' = 0
    /\ UNCHANGED <<driver, wait, rate_limit, runs, snapshot, fvars, cvars>>

(***************************************************************************)
(* One iteration of the for loop of scrape_jobs: the try statement around  *)
(* _process_job_data, whose except clause appends str(e) to the errors,    *)
(* then the rate limit.                                                    *)
(***************************************************************************)
\* The loop body putting a new job in front of the list.
LoopBody_prepending(r) ==
    /\ jobs' = IF ~r.escaped /\ r.job # NoJob THEN <<r.job>> \o jobs ELSE jobs
    /\ stats' = [stats EXCEPT
           !.jobs_categorized = IF r.categorized THEN @ + 1 ELSE @,
           !.jobs_processed = IF ~r.escaped /\ r.job # NoJob THEN @ + 1 ELSE @,
           !.errors = IF r.escaped THEN Append(@, "processing") ELSE @]
    /\ handled' = Append(handled,
           IF r.job # NoJob THEN "accepted"
           ELSE IF r.raised THEN "raised" ELSE "dropped")

LoopBody(r) ==
    /\ jobs' = IF ~r.escaped /\ r.job # NoJob THEN Append(jobs, r.job) ELSE jobs
    /\ stats' = [stats EXCEPT
           !.jobs_categorized = IF r.categorized THEN @ + 1 ELSE @,
           !.jobs_processed = IF ~r.escaped /\ r.job # NoJob THEN @ + 1 ELSE @,
           !.errors = IF r.escaped THEN Append(@, "processing") ELSE @]
    /\ handled' = Append(handled,
           IF r.job # NoJob THEN "accepted"
           ELSE IF r.raised THEN "raised" ELSE "dropped")

\* The rate limit applied only after an item that gave a job.
rate_limiting_for_jobs(r, limit, slept) ==
    IF limit > 0 /\ r.job # NoJob THEN slept + 1 ELSE slept

\* if self.rate_limit > 0: await asyncio.sleep(1 / self.rate_limit), after the
\* try statement, whatever became of the item (r): the sleeps so far.
rate_limiting(r, limit, slept) ==
    IF limit > 0 THEN slept + 1 ELSE slept

ProcessItem ==
    /\ pc = "loop"
    /\ idx <= Len(raw_jobs)
    /\ LoopBody(process_job_data(raw_jobs[idx]))
    /\ delays' = rate_limiting(process_job_data(raw_jobs[idx]), rate_limit, delays)
    /\ idx' = idx + 1
    /\ UNCHANGED <<driver, wait, rate_limit, pc, raw_jobs, runs, call, snapshot, fvars, cvars>>

\* After the loop: self.stats["jobs_found"] = len(raw_jobs).
RunFinish ==
    /\ pc = "loop"
    /\ idx > Len(raw_jobs)
    /\ stats' = [stats EXCEPT !.jobs_found = Len(raw_jobs)]
    /\ pc' = "returning"
    /\ UNCHANGED <<driver, wait, rate_limit, raw_jobs, idx, jobs, handled, delays, runs, call, snapshot, fvars, cvars>>

(***************************************************************************)
(* The task running scrape_jobs is cancelled while it is suspended.  The   *)
(* awaits of a run are asyncio.sleep(2) in _wait_for_page_load, the        *)
(* extraction hook, and asyncio.sleep(1 / rate_limit) after an item.       *)
(* asyncio.CancelledError is a BaseException: neither except clause of     *)
(* scrape_jobs catches it, nor the one of _wait_for_page_load, so it       *)
(* leaves scrape_jobs; nothing calls cleanup and nothing is returned.      *)
(***************************************************************************)
Cancelled == [op |-> "scrape_jobs", result |-> "running", detail |-> "CancelledError"]

\* Cancelled in _wait_for_page_load, before the extraction hook is called.
CancelAtPageLoad ==
    /\ pc = "idle"
    /\ runs < MaxRuns
    /\ driver = "live"
    /\ wait = "set"
    /\ pc' = "cancelled"
    /\ call' = Cancelled
    /\ raw_jobs' = <<>>
    /\ idx' = 0
    /\ jobs' = <<>>
    /\ handled' = <<>>
    /\ delays' = 0
    /\ UNCHANGED <<driver, wait, rate_limit, stats, runs, snapshot, fvars, cvars>>

\* Cancelled in the delay that follows the processing of an item.
CancelAtDelay ==
    /\ pc = "loop"
    /\ idx <= Len(raw_jobs)
    /\ rate_limit > 0
    /\ LoopBody(process_job_data(raw_jobs[idx]))
    /\ idx' = idx + 1
    /\ pc' = "cancelled"
    /\ call' = Cancelled
    /\ UNCHANGED <<driver, wait, rate_limit, raw_jobs, delays, runs, snapshot, fvars, cvars>>

\* return jobs, or the exception leaves the method.
Return ==
    /\ pc \in {"returning", "cancelled"}
    /\ call' = IF pc = "returning" THEN [call EXCEPT !.result = "returned"]
               ELSE [call EXCEPT !.result = "raised"]
    /\ pc' = "idle"
    /\ raw_jobs' = <<>>
    /\ idx' = 0
    /\ jobs' = <<>>
    /\ handled' = <<>>
    /\ delays' = 0
    /\ runs' = runs + 1
    /\ UNCHANGED <<driver, wait, rate_limit, stats, snapshot, fvars, cvars>>

(***************************************************************************)
(* BaseScraper.get_stats: self.stats.copy(), a new dict with the values of *)
(* self.stats.  The counters are integers; the value of "errors" is the    *)
(* list object of self.stats itself ("self.stats.errors"), which           *)
(* scrape_jobs appends to and never replaces.                              *)
(***************************************************************************)
get_stats(st) ==
    [taken |-> TRUE, jobs_found |-> st.jobs_found, jobs_processed |-> st.jobs_processed,
     jobs_categorized |-> st.jobs_categorized, errors |-> "self.stats.errors"]

\* What the holder of the snapshot reads in it.
SnapshotView ==
    [jobs_found |-> snapshot.jobs_found, jobs_processed |-> snapshot.jobs_processed,
     jobs_categorized |-> snapshot.jobs_categorized,
     errors |-> IF snapshot.errors = "self.stats.errors" THEN stats.errors ELSE <<>>]

GetStats ==
    /\ pc = "idle"
    /\ snapshot' = get_stats(stats)
    /\ call' = [op |-> "get_stats", result |-> "returned", detail |-> ""]
    /\ UNCHANGED <<driver, wait, rate_limit, stats, pc, raw_jobs, idx, jobs, handled, delays, runs, fvars, cvars>>

\* The caller of get_stats writes to the dict it was given:
\* snapshot["jobs_processed"] = -1
SnapshotSetCounter ==
    /\ pc = "idle"
    /\ snapshot.taken
    /\ snapshot.jobs_processed # -1
    /\ snapshot' = [snapshot EXCEPT !.jobs_processed = -1]
    /\ call' = [op |-> "snapshot_write", result |-> "returned", detail |-> "counter"]
    /\ UNCHANGED <<driver, wait, rate_limit, stats, pc, raw_jobs, idx, jobs, handled, delays, runs, fvars, cvars>>

\* snapshot["errors"].append("client"): the list is the one of self.stats.
SnapshotAppendError ==
    /\ pc = "idle"
    /\ snapshot.taken
    /\ snapshot.errors = "self.stats.errors"
    /\ "client" \notin Range(stats.errors)
    /\ stats' = [stats EXCEPT !.errors = Append(@, "client")]
    /\ call' = [op |-> "snapshot_write", result |-> "returned", detail |-> "append"]
    /\ UNCHANGED <<driver, wait, rate_limit, pc, raw_jobs, idx, jobs, handled, delays, runs, snapshot, fvars, cvars>>

\* snapshot["errors"].pop()
SnapshotRemoveError ==
    /\ pc = "idle"
    /\ snapshot.taken
    /\ snapshot.errors = "self.stats.errors"
    /\ stats.errors # <<>>
    /\ stats' = [stats EXCEPT !.errors = SubSeq(@, 1, Len(@) - 1)]
    /\ call' = [op |-> "snapshot_write", result |-> "returned", detail |-> "pop"]
    /\ UNCHANGED <<driver, wait, rate_limit, pc, raw_jobs, idx, jobs, handled, delays, runs, snapshot, fvars, cvars>>

(***************************************************************************)
(* Specifications.                                                         *)
(***************************************************************************)
FactoryNext ==
    \/ RegisterSome
    \/ CreateSome
    \/ AvailableSome

IsolationNext ==
    \/ CreateSome
    \/ MutateCompanyConfigSome
    \/ MutateSelectorsSome
    \/ MutateGlobalConfigSome
    \/ MutateRulesSome

RunNext ==
    \/ Initialize
    \/ Cleanup
    \/ RunStart
    \/ ProcessItem
    \/ RunFinish
    \/ CancelAtPageLoad
    \/ CancelAtDelay
    \/ Return

ItemNext ==
    \/ ProcessItem
    \/ RunFinish
    \/ Return

StatsNext ==
    \/ Initialize
    \/ RunStart
    \/ ProcessItem
    \/ RunFinish
    \/ Return
    \/ GetStats
    \/ SnapshotSetCounter
    \/ SnapshotAppendError
    \/ SnapshotRemoveError

CategorizerNext ==
    \/ Categorize

\* A factory nobody calls.
QuietFactory ==
    InitFrom({ << <<"Meta", CHOOSE c \in CompanyCfgs :
                               c.enabled = "true" /\ c.scraper_class = "MetaScraper">> >> })

FactoryInit == InitFrom(ConfigFiles) /\ NewScraper /\ rate_limit = 0 /\ DefaultCategorizer

IsolationInit == InitFrom(ResolvableFiles) /\ NewScraper /\ rate_limit = 0 /\ DefaultCategorizer

RunInit == QuietFactory /\ NewScraper /\ DefaultCategorizer

ItemInit == QuietFactory /\ HookReturned /\ DefaultCategorizer

CategorizerInit ==
    QuietFactory /\ NewScraper /\ rate_limit = 0 /\ ConfiguredCategorizer

\* The factory and its callers.
FactorySpec == FactoryInit /\ [][FactoryNext]_vars

\* Scrapers writing to the configuration they were given.
IsolationSpec == IsolationInit /\ [][IsolationNext]_vars

\* The life of one scraper instance.
RunSpec == RunInit /\ [][RunNext]_vars

\* One run over one listing of any shape.
ItemSpec == ItemInit /\ [][ItemNext]_vars

\* A scraper, its runs and a caller of get_stats.
StatsSpec == RunInit /\ [][StatsNext]_vars

\* One categorizer of any configuration, called with any text.
CategorizerSpec == CategorizerInit /\ [][CategorizerNext]_vars

Spec == RunSpec

(***************************************************************************)
(* Properties of the factory.                                              *)
(***************************************************************************)
\* The configuration the factory holds for the key a caller passes.
Configured(k) == HasKey(company_configs, Lower(k))

ConfigOf(k) == heap[RefOf(company_configs, Lower(k))].data

IsDisabled(k) == Configured(k) /\ ConfigOf(k).enabled = "false"

IsEnabled(k) == Configured(k) /\ ConfigOf(k).enabled \in {"true", "absent"}

\* The configured keys in configuration order, and the set of them.
ConfigOrder == [i \in 1..Len(company_configs) |-> company_configs[i][1]]

\* The step is a call of register_scraper, of create_scraper: the one the
\* history variable records.
IsRegister == last'.op = "register" /\ Register(last'.key, last'.cls)

IsCreate == last'.op = "create" /\ Create(last'.key)

\* C1: create(key) on an employer whose configuration has enabled = false
\* raises the Disabled error whatever the registry holds and whatever class
\* and module the configuration names: no class is resolved, no module is
\* imported, no instance is constructed, and registry and heap stay as they
\* were.
C1_DisabledCreateFails ==
    [][(IsCreate /\ IsDisabled(last'.key)) =>
          /\ last'.result = "ValueError:disabled"
          /\ last'.cls = "none"
          /\ last'.imports = <<>>
          /\ scrapers' = scrapers
          /\ registry' = registry
          /\ heap' = heap]_vars

\* create() was refused on a disabled employer that has an explicit
\* registration and whose configuration names a class and a module.
C1_Witness ==
    /\ last.op = "create"
    /\ last.result = "ValueError:disabled"
    /\ explicit[Lower(last.key)] # "none"
    /\ ConfigOf(last.key).scraper_class = "AltScraper"
    /\ ConfigOf(last.key).module = "plugins.good"

\* C2: once register_scraper(key, C) has succeeded, the registry holds C for
\* the key until the next successful register_scraper for it, and a create(key)
\* on the enabled employer calls C and nothing else, without any import,
\* whatever the configuration names and whether or not a class resolved by
\* convention was cached for the key before.  (C itself may still reject the
\* configuration it is given.)
C2_ExplicitRegistrationWins ==
    /\ \A k \in Keys : explicit[k] # "none" => registry[k] = explicit[k]
    /\ (/\ last.op = "create"
        /\ IsEnabled(last.key)
        /\ explicit[Lower(last.key)] # "none")
       => /\ last.result \in {"ok", "ValueError:name"}
          /\ last.cls = explicit[Lower(last.key)]
          /\ last.imports = <<>>
          /\ last.result = "ok" => scrapers[Len(scrapers)].cls = explicit[Lower(last.key)]

\* A first create(key) resolved and cached the class the configuration names,
\* then a class was registered for the key, and a second create(key) built an
\* instance of the registered class.
C2_Witness ==
    /\ last.op = "create"
    /\ last.result = "ok"
    /\ explicit[Lower(last.key)] = "DummyScraper"
    /\ Len(scrapers) = 2
    /\ scrapers[1].cls \in {"MetaScraper", "AltScraper"}
    /\ scrapers[2].cls = "DummyScraper"
    /\ ConfigOf(last.key).scraper_class = scrapers[1].cls
    /\ View(heap, scrapers[1].company_config) = View(heap, scrapers[2].company_config)

\* C3: available_companies() yields exactly the configured keys whose
\* "enabled" is true or absent, in configuration order;
\* available_companies(include_disabled=True) yields every configured key in
\* configuration order, so it contains the former and every disabled key, and
\* differs from it whenever an employer is disabled.
C3_AvailableListsEnabled ==
    /\ last.op = "available" =>
          last.keys = SelectSeq(ConfigOrder, LAMBDA k : IsEnabled(k))
    /\ last.op = "available_all" => last.keys = ConfigOrder
    /\ LET some == Range(available_companies(heap, company_configs, FALSE))
           all  == Range(available_companies(heap, company_configs, TRUE))
       IN  /\ some \subseteq all
           /\ \A k \in Keys : IsDisabled(k) => k \in all /\ k \notin some
           /\ (\E k \in Keys : IsDisabled(k)) => some # all

\* available_companies() returned a proper, non-empty part of the
\* configuration, which includes an employer without an "enabled" entry.
C3_Witness ==
    /\ last.op = "available"
    /\ last.keys # <<>>
    /\ \E k \in Keys : IsDisabled(k)
    /\ \E k \in Range(last.keys) : ConfigOf(k).enabled = "absent"

\* C4: register_scraper(key, cls) raises when the lower-cased key is not in
\* the loaded configuration and succeeds for a scraper class when it is; a
\* registration that raises leaves the registry, hence the registered keys and
\* what create() resolves, as it was.
C4_RegisterNeedsConfiguredKey ==
    [][IsRegister =>
          /\ ~Configured(last'.key) => last'.result # "ok"
          /\ (~Configured(last'.key) /\ IsSubclassOfBaseScraper(last'.cls))
                => last'.result = "KeyError"
          /\ (Configured(last'.key) /\ IsSubclassOfBaseScraper(last'.cls))
                => last'.result = "ok"
          /\ last'.result # "ok" =>
                /\ registry' = registry
                /\ registered_companies(registry') = registered_companies(registry)
                /\ explicit' = explicit]_vars

\* A registration for a key that is not configured was rejected while the
\* registry already held a class for another key.
C4_Witness ==
    /\ last.op = "register"
    /\ last.result = "KeyError"
    /\ ~Configured(last.key)
    /\ registered_companies(registry) # {}

\* C5: create(key) for a key that is not configured raises KeyError
\* (NotFound); create(key) for an enabled employer with no registered class
\* and no class name in its configuration raises ValueError (Misconfigured)
\* before any import.  Either way no instance is constructed and the registry
\* and the heap stay as they were.
C5_CreateFailsFast ==
    [][IsCreate =>
          /\ ~Configured(last'.key) =>
                /\ last'.result = "KeyError"
                /\ last'.imports = <<>>
                /\ scrapers' = scrapers /\ registry' = registry /\ heap' = heap
          /\ (/\ IsEnabled(last'.key)
              /\ explicit[Lower(last'.key)] = "none"
              /\ ConfigOf(last'.key).scraper_class \in {"absent", ""})
             => /\ last'.result = "ValueError:no_class"
                /\ last'.imports = <<>>
                /\ scrapers' = scrapers /\ registry' = registry /\ heap' = heap]_vars

\* create() was refused for want of a class name, on an employer whose
\* configuration names a module, while another employer had a registered class.
C5_Witness ==
    /\ last.op = "create"
    /\ last.result = "ValueError:no_class"
    /\ ConfigOf(last.key).module = "plugins.good"
    /\ registered_companies(registry) # {}

\* What the factory itself can read: every employer's configuration and the
\* global configuration, nested objects included.
FactoryView ==
    [companies |-> [i \in 1..Len(company_configs) |->
                        View(heap, company_configs[i][2])],
     global    |-> View(heap, global_config)]

\* What scraper i can read.
ScraperView(h, sc) ==
    [company_config |-> View(h, sc.company_config),
     global_config  |-> View(h, sc.global_config)]

MutateBy(i) ==
    /\ last'.op = "mutate"
    /\ last'.key = ToString(i)
    /\ \/ MutateCompanyConfig(i)
       \/ MutateSelectors(i)
       \/ MutateGlobalConfig(i)
       \/ MutateRules(i)

\* C6: every scraper create_scraper returns has its own deep copies of the
\* employer's configuration and of the global configuration: a write by a
\* scraper to either of them, at the top or in a nested object, changes
\* neither what the factory holds, nor what available_companies yields, nor
\* what any other scraper reads, and a scraper created afterwards reads the
\* configuration as it was loaded.
C6_ConfigurationIsolated ==
    [][/\ FactoryView' = FactoryView
       /\ \A b \in BOOLEAN :
             available_companies(heap', company_configs', b)
                 = available_companies(heap, company_configs, b)
       /\ \A i \in 1..Len(scrapers) :
             MutateBy(i) =>
                 \A j \in (1..Len(scrapers)) \ {i} :
                     ScraperView(heap', scrapers'[j]) = ScraperView(heap, scrapers[j])
       /\ Len(scrapers') > Len(scrapers) =>
             /\ \A j \in 1..Len(scrapers) :
                   ScraperView(heap', scrapers'[j]) = ScraperView(heap, scrapers[j])
             /\ ScraperView(heap', scrapers'[Len(scrapers')])
                   = [company_config |-> View(heap, RefOf(company_configs, Lower(last'.key))),
                      global_config  |-> View(heap, global_config)]]_vars

\* The first scraper has written to every dictionary it was given, and a
\* scraper created for the same employer after that reads none of it.
C6_Witness ==
    /\ last.op = "create"
    /\ last.result = "ok"
    /\ Len(scrapers) = 2
    /\ ScraperView(heap, scrapers[1]) =
          [company_config |-> [data |-> [ConfigOf(last.key) EXCEPT !.enabled = "false"],
                               child |-> "MUTATED"],
           global_config  |-> [data |-> [default_rate_limit |-> "MUTATED"],
                               child |-> "MUTATED"]]
    /\ ScraperView(heap, scrapers[2]) =
          [company_config |-> View(heap, RefOf(company_configs, Lower(last.key))),
           global_config  |-> View(heap, global_config)]

(***************************************************************************)
(* Properties of a run.                                                    *)
(***************************************************************************)
RequiredFields == {"title", "description", "location"}

\* A raw listing whose title, description and location are all non-empty
\* after cleaning.
WellFormed(raw_job) ==
    \A f \in RequiredFields :
        ~clean_text(raw_job[f]).raised /\ ~clean_text(raw_job[f]).none

\* A raw listing one of whose required fields is empty after cleaning.
EmptyAfterCleaning(raw_job) ==
    \E f \in RequiredFields :
        ~clean_text(raw_job[f]).raised /\ clean_text(raw_job[f]).none

Count(q, v) == Cardinality({i \in 1..Len(q) : q[i] = v})

WellFormedCount(q) == Cardinality({i \in 1..Len(q) : WellFormed(q[i])})

\* C7: during a run, every raw item whose normalization or categorization
\* raised has a message in the error list of the statistics, and the items
\* after it are processed all the same.
C7_PerItemErrorsRecorded ==
    /\ pc \in {"loop", "returning"} => Count(handled, "raised") <= Len(stats.errors)
    /\ pc = "returning" /\ raw_jobs # <<>> => Len(handled) = Len(raw_jobs)

\* C8: every well-formed raw listing the loop has passed is in the output of
\* the run as one record, whatever markers its text carries, and every record
\* has a job type, an experience level and a workplace type of their
\* enumerations and a category.
C8_WellFormedYieldsRecord ==
    /\ \A i \in 1..Len(handled) : WellFormed(raw_jobs[i]) => handled[i] = "accepted"
    /\ Len(jobs) = Count(handled, "accepted")
    /\ \A j \in 1..Len(jobs) :
          /\ jobs[j].job_type \in JobTypeMembers
          /\ jobs[j].experience_level \in ExperienceLevelMembers
          /\ jobs[j].workplace_type \in WorkplaceTypeMembers
          /\ jobs[j].category \in JobCategoryMembers

\* C9: a raw listing whose title, description or location is empty after
\* cleaning is dropped by the run: the loop iteration on it adds no record to
\* the output and no error, and changes no counter, and the end of the loop
\* counts it in jobs_found.
C9_EmptyItemDropped ==
    [][/\ (ProcessItem /\ EmptyAfterCleaning(raw_jobs[idx])) =>
             /\ jobs' = jobs
             /\ stats' = stats
             /\ handled'[idx] # "accepted"
       /\ RunFinish => /\ stats'.jobs_found = Len(raw_jobs)
                       /\ jobs' = jobs]_vars

\* A run over an accepted listing and one whose location is made of control
\* characters only has returned one record and counted two listings.
C9_Witness ==
    /\ pc = "returning"
    /\ Len(raw_jobs) = 2
    /\ raw_jobs[2].location.kind = "str"
    /\ raw_jobs[2].location.text # <<>>
    /\ clean_text(raw_jobs[2].location).none
    /\ WellFormed([raw_jobs[2] EXCEPT !.location = raw_jobs[1].location])
    /\ handled = <<"accepted", "dropped">>
    /\ Len(jobs) = 1
    /\ stats = [jobs_found |-> 2, jobs_processed |-> 1, jobs_categorized |-> 1,
                errors |-> <<>>]

\* C10: when the first run of a new scraper returns after its extraction hook
\* gave N raw items, jobs_found is N and jobs_processed is the number of
\* records returned, which is the number of well-formed items among the N.
C10_CountsMatchWellFormed ==
    (pc = "returning" /\ runs = 0 /\ Len(handled) = Len(raw_jobs) /\ raw_jobs # <<>>)
    => /\ stats.jobs_found = Len(raw_jobs)
       /\ stats.jobs_processed = Len(jobs)
       /\ Len(jobs) = WellFormedCount(raw_jobs)

\* C11: the statistics are reset at the start of each run: when scrape_jobs
\* returns, jobs_processed is the number of records of this run,
\* jobs_categorized is at most the number of raw items of this run, jobs_found
\* is the number of raw items of this run and the error list holds the
\* messages of this run alone (at most one: the loop adds none), whatever
\* the earlier runs of the same instance did.
C11_StatsDescribeOneRun ==
    pc = "returning" =>
        /\ stats.jobs_processed = Len(jobs)
        /\ stats.jobs_categorized <= Len(raw_jobs)
        /\ stats.jobs_found = Len(raw_jobs)
        /\ Len(stats.errors) <= 1

(***************************************************************************)
(* Properties of the lifecycle.                                            *)
(***************************************************************************)
\* C12: initialize never raises: it returns False whenever creating the
\* driver or the wait object raised (unsupported browser type, launch
\* failure, WebDriverWait failure) and True otherwise, and when it has
\* returned True the scraper holds a live session and its wait object.
C12_InitializeNeverRaises ==
    call.op = "initialize" =>
        /\ call.result \in {"True", "False"}
        /\ call.result = "False" <=> call.detail \in {"ValueError", "WebDriverException", "WebDriverWait"}
        /\ call.result = "True" <=> call.detail = ""
        /\ call.result = "True" => driver = "live" /\ wait = "set"

\* initialize returned False because WebDriverWait raised after the session
\* was created, on an instance that had already run.
C12_Witness ==
    /\ call = [op |-> "initialize", result |-> "False", detail |-> "WebDriverWait"]
    /\ driver = "live"
    /\ wait = "none"
    /\ runs > 0

\* C13: cleanup never raises, whatever the instance went through before: it
\* returns, it does nothing when no session was ever created, and otherwise it
\* calls quit on the session and returns whether quit returned or raised.
C13_CleanupNeverRaises ==
    [][call'.op = "cleanup" =>
          /\ call'.result = "returned"
          /\ driver = "none" =>
                /\ call'.detail = "no_session"
                /\ UNCHANGED <<driver, wait, rate_limit, stats, pc, jobs, runs>>
          /\ driver # "none" =>
                /\ call'.detail \in {"quit", "quit_raised"}
                /\ driver' \in {driver, "dead"}
                /\ call'.detail = "quit" => driver' = "dead"]_vars

\* After a run and an earlier cleanup, cleanup was called on the dead session,
\* quit raised, and cleanup returned.
C13_Witness ==
    /\ call = [op |-> "cleanup", result |-> "returned", detail |-> "quit_raised"]
    /\ driver = "dead"
    /\ runs > 0
    /\ stats.jobs_processed > 0

\* C14: a run that was cancelled at the page-load wait or at an inter-item
\* delay has released the session through cleanup and has returned the
\* records produced so far instead of raising.
C14_CancellationReleasesSession ==
    (call.op = "scrape_jobs" /\ call.detail = "CancelledError" /\ pc = "idle")
    => /\ call.result = "returned"
       /\ driver = "dead"

(***************************************************************************)
(* Properties of the categorizer.                                          *)
(***************************************************************************)
\* The score the last call gave to category i, computed from its arguments.
ScoreAt(i) ==
    CategoryScore(categories[i], LowerText(result.title), LowerText(result.description),
                  LowerText(result.department))

\* The position of the winning category of the last call.
WinnerAt(i) == result.best_category_id = categories[i].id

\* C15: for every text and every configuration of categories, weights, bonus
\* and threshold the confidence returned lies in [0,1], and it is 0 when the
\* number of keywords of the winning category times the title weight is not
\* positive.
C15_ConfidenceInUnitInterval ==
    result.called =>
        /\ result.confidence[2] > 0
        /\ 0 <= result.confidence[1]
        /\ result.confidence[1] <= result.confidence[2]
        /\ \A i \in 1..Len(categories) :
              (WinnerAt(i) /\ Len(categories[i].keywords) * rules.title_weight <= 0)
                  => result.confidence[1] = 0

\* A department match alone wins for a category without keywords, or with a
\* title weight that is not positive, and the guard gives confidence 0.
C15_Witness ==
    /\ result.called
    /\ result.best_category_id = "operations"
    /\ result.confidence[1] = 0
    /\ rules.title_weight > 0

\* No keyword of category i matches the title or the sampled description of
\* the last call.
NoKeywordMatch(i) ==
    /\ find_keyword_matches(LowerText(result.title), categories[i].keywords) = <<>>
    /\ find_keyword_matches(Sample(LowerText(result.description)), categories[i].keywords) = <<>>

\* C16: whenever no keyword of any category matches the title or the
\* description, the categorizer returns "other", also when the department
\* matches department terms of some category.
C16_NoKeywordMeansOther ==
    (result.called /\ \A i \in 1..Len(categories) : NoKeywordMatch(i))
        => result.category = "other"

\* C17: the categorizer selects the category with the maximum accumulated
\* score, and among several categories with that score the one declared
\* first.
C17_FirstMaximumWins ==
    (result.called /\ \E i \in 1..Len(categories) : ScoreAt(i) > 0) =>
        \E w \in 1..Len(categories) :
            /\ WinnerAt(w)
            /\ \A j \in 1..Len(categories) : ScoreAt(j) <= ScoreAt(w)
            /\ \A j \in 1..(w - 1) : ScoreAt(j) < ScoreAt(w)

\* Two categories tie with the highest score and the first one is selected.
C17_Witness ==
    /\ result.called
    /\ \E i, j \in 1..Len(categories) :
          /\ i < j
          /\ ScoreAt(i) = ScoreAt(j)
          /\ ScoreAt(i) > 0
          /\ WinnerAt(i)
          /\ result.category = categories[i].id

\* The confidence of the winning category i of the last call, computed from
\* its arguments.
ComputedConfidence(i) ==
    Confidence(ScoreAt(i), Len(categories[i].keywords) * rules.title_weight)

BelowThreshold(confidence) ==
    confidence[1] * 100 < rules.min_confidence_threshold * confidence[2]

\* C18 as stated: below the threshold the categorizer returns the catch-all
\* with the computed confidence unchanged, at or above it the winning
\* category itself.
C18_ThresholdDecides ==
    result.called =>
        \A i \in 1..Len(categories) :
            WinnerAt(i) =>
                /\ result.confidence = ComputedConfidence(i)
                /\ BelowThreshold(ComputedConfidence(i)) => result.category = "other"
                /\ ~BelowThreshold(ComputedConfidence(i)) => result.category = categories[i].id

\* C18 (amended): below the threshold the categorizer returns the catch-all
\* with the computed confidence unchanged; at or above it the winning
\* category itself when its id is a value of JobCategory, and the catch-all
\* with the computed confidence otherwise.
C18_ThresholdDecidesAmongMembers ==
    result.called =>
        \A i \in 1..Len(categories) :
            WinnerAt(i) =>
                /\ result.confidence = ComputedConfidence(i)
                /\ BelowThreshold(ComputedConfidence(i)) => result.category = "other"
                /\ (~BelowThreshold(ComputedConfidence(i))
                    /\ categories[i].id \in JobCategoryMembers)
                       => result.category = categories[i].id
                /\ (~BelowThreshold(ComputedConfidence(i))
                    /\ categories[i].id \notin JobCategoryMembers)
                       => result.category = "other"

\* A winner of confidence 1/2 under a threshold of 1 is returned as the
\* catch-all with confidence 1/2.
C18_Witness ==
    /\ result.called
    /\ result.best_category_id = "technology"
    /\ result.category = "other"
    /\ result.confidence = <<60, 120>>
    /\ rules.min_confidence_threshold = 100

(***************************************************************************)
(* Properties of the rate limit.                                           *)
(***************************************************************************)
\* C19: with a rate limit R > 0 a delay of 1/R is applied between every two
\* consecutive items of a run (at least N - 1 delays for N items, also after
\* items that were dropped or that failed), and with a rate limit of 0 there
\* is no delay at all.
C19_DelayBetweenItems ==
    /\ (pc = "loop" /\ rate_limit > 0) => delays >= idx - 1
    /\ (pc = "returning" /\ rate_limit > 0 /\ Len(handled) = Len(raw_jobs))
           => delays >= Len(raw_jobs) - 1
    /\ (pc \in {"loop", "returning"} /\ rate_limit = 0) => delays = 0

\* A run of two items under a rate limit, one of them dropped or failed, with
\* a delay after each.
C19_Witness ==
    /\ pc = "returning"
    /\ rate_limit = 2
    /\ Len(raw_jobs) = 2
    /\ handled[1] \in {"dropped", "raised"}
    /\ handled[2] = "accepted"
    /\ delays = 2

(***************************************************************************)
(* Properties of the cache of resolved classes.                            *)
(***************************************************************************)
\* The outcomes of a resolution that failed.
ResolutionFailures ==
    {"ValueError:no_class", "ModuleNotFoundError", "AttributeError", "TypeError"}

\* The registry entry of k was written by a resolution, not by register().
CachedByResolution(k) == registry[Lower(k)] # "none" /\ explicit[Lower(k)] = "none"

\* C20: after a convention-based resolution of a key has succeeded once,
\* every later create(key) uses the cached class without importing again; a
\* resolution that fails caches nothing, so the create(key) that follows
\* attempts the resolution again.
C20_ResolutionCachedOnSuccessOnly ==
    [][(IsCreate /\ IsEnabled(last'.key)) =>
          /\ CachedByResolution(last'.key) =>
                /\ last'.imports = <<>>
                /\ last'.cls = registry[Lower(last'.key)]
                /\ registry' = registry
          /\ (registry[Lower(last'.key)] = "none" /\ last'.imports # <<>>
              /\ last'.result \notin ResolutionFailures)
                => registry' = [registry EXCEPT ![Lower(last'.key)] = last'.cls]
          /\ last'.result \in ResolutionFailures => registry' = registry
          /\ (/\ last.op = "create"
              /\ Lower(last.key) = Lower(last'.key)
              /\ last.result \in ResolutionFailures)
                => /\ last'.result = last.result
                   /\ last'.imports = last.imports]_vars

\* A second instance was made for a key from the class cached by the first
\* create(), without an import.
C20_Witness ==
    /\ last.op = "create"
    /\ last.result = "ok"
    /\ last.imports = <<>>
    /\ CachedByResolution(last.key)
    /\ Len(scrapers) = 2
    /\ scrapers[1].cls = scrapers[2].cls

(***************************************************************************)
(* Properties of the score.                                                *)
(***************************************************************************)
\* The keywords of the list that match the text, by position in the list.
MatchedIn(text, keywords) ==
    { k \in 1..Len(keywords) : find_keyword_matches(text, <<keywords[k]>>) # <<>> }

SingleWordsIn(text, keywords) ==
    { k \in MatchedIn(text, keywords) : IsSingleWord(keywords[k]) }

\* Twice the score the claim gives to category i for the arguments of the
\* last call.
TwiceExpectedScore(i) ==
    2 * Cardinality(MatchedIn(LowerText(result.title), categories[i].keywords))
      * rules.title_weight
    + Cardinality(MatchedIn(Sample(LowerText(result.description)), categories[i].keywords))
      * rules.description_weight
    + 2 * Cardinality(MatchedIn(LowerText(result.department), categories[i].departments))
      * rules.department_weight
    + 2 * ( Cardinality(SingleWordsIn(LowerText(result.title), categories[i].keywords))
            + Cardinality(SingleWordsIn(Sample(LowerText(result.description)),
                                        categories[i].keywords))
            + Cardinality(SingleWordsIn(LowerText(result.department),
                                        categories[i].departments)) )
      * rules.exact_match_bonus

\* C21: the score of every category is the number of keywords matched in the
\* title times the title weight, plus the number matched in the first 500
\* characters of the description times half the description weight, plus the
\* number of department terms matched times the department weight, plus the
\* bonus for every single-word match in each field.
C21_ScoreFormula ==
    result.called =>
        \A i \in 1..Len(categories) : 2 * result.scores[i] = TwiceExpectedScore(i)

\* "data" matched in the title and in the description earns the bonus twice:
\* 60 + 5 + 2 * 200.
C21_Witness ==
    /\ result.called
    /\ rules = DefaultRules
    /\ categories = JobCategories
    /\ result.title = <<"Data", "sp", "Engineer">>
    /\ result.description = <<"7+", "sp", "years", "sp", "data">>
    /\ result.scores[2] = 465

(***************************************************************************)
(* Properties of the order of a run.                                       *)
(***************************************************************************)
AppendIfJob(acc, r) == IF r.job # NoJob THEN Append(acc, r.job) ELSE acc

\* The records of the accepted items among the first n of q, in the order of q.
RECURSIVE AcceptedRecords(_, _)
AcceptedRecords(q, n) ==
    IF n = 0 THEN <<>>
    ELSE AppendIfJob(AcceptedRecords(q, n - 1), process_job_data(q[n]))

\* C22: within one run the raw items are processed one at a time in the
\* order the extraction hook returned them, and the records returned are the
\* records of the accepted items in that order.
C22_OrderPreserved ==
    /\ pc = "loop" =>
          /\ idx \in 1..(Len(raw_jobs) + 1)
          /\ Len(handled) = idx - 1
          /\ jobs = AcceptedRecords(raw_jobs, idx - 1)
    /\ (pc = "returning" /\ idx > 0) =>
          /\ Len(handled) = Len(raw_jobs)
          /\ jobs = AcceptedRecords(raw_jobs, Len(raw_jobs))
    /\ (pc = "returning" /\ idx = 0) => jobs = <<>>

\* Two accepted items, returned in the order of the hook.
C22_Witness ==
    /\ pc = "returning"
    /\ raw_jobs = <<ValidDirector, ValidSenior>>
    /\ Len(jobs) = 2
    /\ jobs[1].title = <<"Director">>
    /\ jobs[2].title = <<"Senior", "sp", "Engineer">>

(***************************************************************************)
(* Properties of a run that fails before the loop.                         *)
(***************************************************************************)
\* The step is the start of a run in which driver.get, _wait_for_page_load
\* or the extraction hook raised an exception (a page-load timeout is not
\* one: it is logged as a warning and the run goes on).
IsFailedStart == pc = "idle" /\ call' = Running /\ idx' = 0

\* The step is the end of a run that was not cancelled.
IsEndOfRun == pc \in {"returning", "cancelled"} /\ pc' = "idle" /\ call.detail = ""

\* C23: a run in which navigation, the page-load wait or the extraction hook
\* fails, in any lifecycle state (never initialized, or cleaned up, too),
\* does not raise: it appends one message to the errors and returns the
\* records produced so far, which are none.  A run started without a live
\* session always fails this way.
C23_RunNeverRaises ==
    [][/\ (pc = "idle" /\ call' = Running /\ driver # "live") => idx' = 0
       /\ IsFailedStart =>
             /\ pc' = "returning"
             /\ jobs' = <<>>
             /\ Len(stats'.errors) = Len(stats.errors) + 1
             /\ SubSeq(stats'.errors, 1, Len(stats.errors)) = stats.errors
             /\ stats'.jobs_processed = stats.jobs_processed
       /\ IsEndOfRun => call'.result = "returned"]_vars

\* A run on a scraper that was initialized and cleaned up returned with one
\* message in the errors.
C23_Witness ==
    /\ call = [op |-> "scrape_jobs", result |-> "returned", detail |-> ""]
    /\ driver = "dead"
    /\ runs = 1
    /\ stats.errors = <<"navigation">>

(***************************************************************************)
(* Properties of the counters.                                             *)
(***************************************************************************)
\* C24: at the end of every run, whatever the number of earlier runs on the
\* instance and whether or not the extraction hook failed, processed <=
\* categorized <= found.
C24_CountersOrdered ==
    pc = "returning" =>
        /\ stats.jobs_processed <= stats.jobs_categorized
        /\ stats.jobs_categorized <= stats.jobs_found

(***************************************************************************)
(* Properties of the statistics handed out.                                *)
(***************************************************************************)
\* C25: the dict returned by get_stats is independent of the scraper:
\* changing its counters or adding to or removing from its error list never
\* changes the statistics of the scraper, and later runs never change a
\* snapshot already handed out.
C25_SnapshotIndependent ==
    [][/\ call'.op = "snapshot_write" => stats' = stats
       /\ (snapshot.taken /\ call'.op = "scrape_jobs") => SnapshotView' = SnapshotView]_vars

====
